---- MODULE Spec2Model ----
(***************************************************************************)
(* GraphZip (compressor/compress.py): the pattern dictionary P, its        *)
(* update and trim operations, the batch iterator and the stream driver.   *)
(*                                                                         *)
(* Conventions.  Vertex and edge positions are 1-based here (igraph's are  *)
(* 0-based).  A graph is a record [label, es]: label is the sequence of    *)
(* vertex labels by position, es the sequence of edges [source, target,    *)
(* label].  A batch graph also has the field name (the vertex ids of the   *)
(* input file); pattern graphs carry no names.  The igraph primitives are  *)
(* modelled by what the library computes: an undirected edge is stored     *)
(* with source <= target, incident() defaults to the OUT edges of a        *)
(* directed graph, VF2 sub-isomorphism is the non-induced one and its      *)
(* embeddings are enumerated depth first by candidate position, and        *)
(* incident edges are listed by edge position.  Edge objects compare by    *)
(* position, and vs.find(name=i) with an integer i finds the vertex at     *)
(* position i of a pattern graph.                                          *)
(***************************************************************************)
EXTENDS Integers, Sequences, FiniteSets, TLC

(* ------------------------------ bounds --------------------------------- *)
MaxBatchV == 3      \* vertex ids 1..MaxBatchV appear in the input
MaxVLabel == 2      \* vertex labels 1..MaxVLabel
MaxELabel == 2      \* edge labels 1..MaxELabel
MaxVarE   == 1      \* input edges 1..MaxVarE take every edge label, the others label 1
MaxTheta  == 1      \* finite dictionary bounds 1..MaxTheta
MaxOps    == 3      \* direct calls performed in one behaviour
MaxUpdOps == 6      \* direct calls in one behaviour of update and trim calls alone
MaxAlpha  == 2      \* batch sizes 1..MaxAlpha
MaxLines  == 5      \* lines of one input file
MaxFiles  == 2      \* files compressed in one behaviour
MaxScenAlpha == 3   \* batch sizes 1..MaxScenAlpha in the scenarios
MaxReps   == 5      \* repetitions of the edge line in scenario 3
MaxStepOps == 3     \* calls per behaviour when iterate_batch runs step by step
MaxCaseOps == 3     \* direct calls per behaviour on the scenario graphs
MaxScenTheta == 2   \* finite dictionary bounds 1..MaxScenTheta in the scenarios

\* math.inf, the default dict_size: larger than every length that occurs
INF == 1000000

VARIABLES
    P,                      \* self.P: sequence of [graph, count, score]
    dict_trimmed,           \* self._dict_trimmed
    dict_size,              \* self.dict_size (theta), 1..MaxTheta or INF
    directed,               \* self._directed
    batch_size,             \* self.batch_size (alpha)
    add_implicit_vertices,  \* self.add_implicit_vertices
    label_history_per_file, \* self.label_history_per_file
    vid_to_label,           \* self.vid_to_label: function from declared ids to labels
    compress_count,         \* self._compress_count
    pc,                     \* "idle", or "reading" inside compress_file's loop
    G_batch,                \* compress_file's local G_batch
    edge_count,             \* compress_file's local edge_count
    line_count,             \* compress_file's local line_count
    op,                     \* history: the last operation, its input and the state before it
    seen,                   \* history: every [graph, count, score] P has held
    nops                    \* history: number of direct calls performed

config == <<dict_size, directed, batch_size, add_implicit_vertices,
            label_history_per_file>>

file_vars == <<vid_to_label, compress_count, pc, G_batch, edge_count, line_count>>

vars == <<P, dict_trimmed, config, file_vars, op, seen, nops>>

(* --------------------------- graph primitive --------------------------- *)
\* Graph(directed=self._directed)
Graph == [label |-> << >>, es |-> << >>]

vcount(g) == Len(g.label)

ecount(g) == Len(g.es)

\* graph.add_vertex(label=lab)
add_vertex(g, lab) == [g EXCEPT !.label = Append(@, lab)]

\* graph.add_edge(s, t, label=lab)
add_edge(g, s, t, lab) ==
    LET src == IF directed \/ s <= t THEN s ELSE t
        tgt == IF directed \/ s <= t THEN t ELSE s
    IN [g EXCEPT !.es = Append(@, [source |-> src, target |-> tgt, label |-> lab])]

\* graph.are_connected(s, t) on vertex positions
are_connected(g, s, t) ==
    \E i \in DOMAIN g.es :
        \/ g.es[i].source = s /\ g.es[i].target = t
        \/ ~directed /\ g.es[i].source = t /\ g.es[i].target = s

\* graph.incident(v): edge positions, mode OUT when directed
incident(g, v) ==
    SelectSeq([i \in DOMAIN g.es |-> i],
              LAMBDA i : \/ g.es[i].source = v
                         \/ ~directed /\ g.es[i].target = v)

(* -------------------------- isomorphism engine ------------------------- *)
\* an edge s -> t with label l exists in g
HasEdge(g, s, t, l) ==
    \E i \in DOMAIN g.es :
        /\ g.es[i].label = l
        /\ \/ g.es[i].source = s /\ g.es[i].target = t
           \/ ~directed /\ g.es[i].source = t /\ g.es[i].target = s

Injections(n, m) ==
    {f \in [1..n -> 1..m] : \A i, j \in 1..n : i # j => f[i] # f[j]}

\* f carries every edge of g1 to an edge of g2 with the same label
EdgesInto(g1, g2, f) ==
    \A i \in DOMAIN g1.es :
        HasEdge(g2, f[g1.es[i].source], f[g1.es[i].target], g1.es[i].label)

\* graph.isomorphic_vf2(pattern, color1, color2, edge_color1, edge_color2)
isomorphic_vf2(g1, g2) ==
    /\ vcount(g1) = vcount(g2)
    /\ ecount(g1) = ecount(g2)
    /\ \E f \in Injections(vcount(g1), vcount(g2)) :
          /\ \A v \in DOMAIN g1.label : g1.label[v] = g2.label[f[v]]
          /\ EdgesInto(g1, g2, f)
          /\ LET finv == [w \in DOMAIN g2.label |->
                             CHOOSE v \in DOMAIN g1.label : f[v] = w]
             IN EdgesInto(g2, g1, finv)

\* the VF2 search: the embeddings of p into G that extend the partial map m,
\* trying the candidates c, c+1, ... for the next vertex of p
RECURSIVE vf2_extend(_, _, _, _)
vf2_extend(G, p, m, c) ==
    IF c > vcount(G) THEN << >>
    ELSE LET k  == Len(m) + 1
             m2 == Append(m, c)
             ok == /\ \A j \in DOMAIN m : m[j] # c
                   /\ G.label[c] = p.label[k]
                   /\ \A i \in DOMAIN p.es :
                        (p.es[i].source <= k /\ p.es[i].target <= k) =>
                            HasEdge(G, m2[p.es[i].source], m2[p.es[i].target],
                                    p.es[i].label)
             here == IF ~ok THEN << >>
                     ELSE IF k = vcount(p) THEN << m2 >>
                     ELSE vf2_extend(G, p, m2, 1)
         IN here \o vf2_extend(G, p, m, c + 1)

\* faulty variant: only the first embedding found is returned
get_subisomorphisms_first(G, p) ==
    LET maps == IF vcount(p) = 0 THEN << << >> >> ELSE vf2_extend(G, p, << >>, 1)
    IN IF maps = << >> THEN maps ELSE << Head(maps) >>

\* G_batch.get_subisomorphisms_vf2(p, color1, color2, edge_color1, edge_color2)
get_subisomorphisms_vf2(G, p) ==
    IF vcount(p) = 0 THEN << << >> >> ELSE vf2_extend(G, p, << >>, 1)

(* --------------------------- pattern dictionary ------------------------ *)
\* default of trim_dictionary's parameter
threshold_multiplier == 2

\* faulty variant of get_score: multiplies by count instead of count - 1
get_score_count(graph, count) == (ecount(graph) - 1) * count

\* Compressor.get_score
get_score(graph, count) == (ecount(graph) - 1) * (count - 1)

\* faulty variant of InsertByScore: an entry goes before the entries it ties with
InsertByScore_unstable(s, e) ==
    LET k == Cardinality({i \in DOMAIN s : s[i].score > e.score})
    IN SubSeq(s, 1, k) \o << e >> \o SubSeq(s, k + 1, Len(s))

\* list.insert keeping descending scores, after the entries with score >= e's
InsertByScore(s, e) ==
    LET k == Cardinality({i \in DOMAIN s : s[i].score >= e.score})
    IN SubSeq(s, 1, k) \o << e >> \o SubSeq(s, k + 1, Len(s))

\* sorted(self.P, key=itemgetter(2), reverse=True): stable, descending score
RECURSIVE sorted_by_score(_)
sorted_by_score(s) ==
    IF s = << >> THEN << >>
    ELSE InsertByScore(sorted_by_score(SubSeq(s, 1, Len(s) - 1)), s[Len(s)])

\* faulty variant of trim_dictionary: fires one entry too late
trim_dictionary_late(D, multiplier) ==
    IF Len(D.P) > multiplier * dict_size + 1
    THEN [P            |-> SubSeq(sorted_by_score(D.P), 1, dict_size),
          dict_trimmed |-> D.dict_trimmed + 1]
    ELSE D

\* faulty variant of trim_dictionary: fires already at multiplier * theta entries
trim_dictionary_geq(D, multiplier) ==
    IF Len(D.P) >= multiplier * dict_size
    THEN [P            |-> SubSeq(sorted_by_score(D.P), 1, dict_size),
          dict_trimmed |-> D.dict_trimmed + 1]
    ELSE D

\* faulty variant of trim_dictionary: keeps the last theta entries
trim_dictionary_tail(D, multiplier) ==
    IF Len(D.P) > multiplier * dict_size
    THEN [P            |-> SubSeq(sorted_by_score(D.P),
                                  Len(D.P) - dict_size + 1, Len(D.P)),
          dict_trimmed |-> D.dict_trimmed + 1]
    ELSE D

\* Compressor.trim_dictionary on D = [P, dict_trimmed]
trim_dictionary(D, multiplier) ==
    IF Len(D.P) > multiplier * dict_size
    THEN [P            |-> SubSeq(sorted_by_score(D.P), 1, dict_size),
          dict_trimmed |-> D.dict_trimmed + 1]
    ELSE D

\* faulty variant of Matches: compares the graphs as written, not up to isomorphism
Matches_identical(D, pattern) ==
    {i \in DOMAIN D.P : D.P[i].graph = pattern}

\* the entries the loop of update_dictionary accepts as a match for pattern
Matches(D, pattern) ==
    {i \in DOMAIN D.P :
        /\ vcount(D.P[i].graph) = vcount(pattern)
        /\ ecount(D.P[i].graph) = ecount(pattern)
        /\ isomorphic_vf2(D.P[i].graph, pattern)}

\* the entry (pattern, 1, score) update_dictionary appends
NewEntry(pattern) ==
    [graph |-> pattern, count |-> 1, score |-> get_score(pattern, 1)]

\* entry e counted once more
Counted(e) ==
    [graph |-> e.graph, count |-> e.count + 1,
     score |-> get_score(e.graph, e.count + 1)]

\* faulty variant of update_dictionary: trims before it looks for a match
update_dictionary_trim_first(D, pattern) ==
    LET T    == trim_dictionary(D, threshold_multiplier)
        hits == Matches(T, pattern)
    IN IF hits # {}
       THEN LET i == CHOOSE j \in hits : \A k \in hits : j <= k
            IN [T EXCEPT !.P[i] = Counted(@)]
       ELSE [T EXCEPT !.P = Append(@, NewEntry(pattern))]

\* faulty variant of update_dictionary: appends the new entry, then trims
update_dictionary_append_first(D, pattern) ==
    LET hits == Matches(D, pattern)
    IN IF hits # {}
       THEN LET i == CHOOSE j \in hits : \A k \in hits : j <= k
            IN [D EXCEPT !.P[i] = Counted(@)]
       ELSE trim_dictionary([D EXCEPT !.P = Append(@, NewEntry(pattern))],
                            threshold_multiplier)

\* faulty variant: the count of a matched entry wraps round after 2
update_dictionary_wrap(D, pattern) ==
    LET hits == Matches(D, pattern)
    IN IF hits # {}
       THEN LET i == CHOOSE j \in hits : \A k \in hits : j <= k
                new_count == (D.P[i].count % 2) + 1
            IN [D EXCEPT !.P[i] = [graph |-> @.graph,
                                   count |-> new_count,
                                   score |-> get_score(@.graph, new_count)]]
       ELSE LET T == trim_dictionary(D, threshold_multiplier)
            IN [T EXCEPT !.P = Append(@, NewEntry(pattern))]

\* Compressor.update_dictionary on D = [P, dict_trimmed]
update_dictionary(D, pattern) ==
    LET hits == Matches(D, pattern)
    IN IF hits # {}
       THEN LET i == CHOOSE j \in hits : \A k \in hits : j <= k
            IN [D EXCEPT !.P[i] = Counted(@)]
       ELSE LET T == trim_dictionary(D, threshold_multiplier)
            IN [T EXCEPT !.P = Append(@, NewEntry(pattern))]

(* ----------------------------- batch iterator -------------------------- *)
\* the pattern vertex mapped to the batch vertex x by the embedding v_map
Gv_to_pv(v_map, x) == CHOOSE k \in DOMAIN v_map : v_map[k] = x

InMap(v_map, x) == \E k \in DOMAIN v_map : v_map[k] = x

\* faulty variant of safe_add_edge_at: the edge is added even when the two
\* vertices are connected already
safe_add_edge_at_always(graph, source, target, lab) ==
    add_edge(graph, source, target, lab)

\* Compressor.safe_add_edge on a pattern graph and vertex positions
safe_add_edge_at(graph, source, target, lab) ==
    IF ~are_connected(graph, source, target)
    THEN add_edge(graph, source, target, lab)
    ELSE graph

\* the batch edges that are the images of p's edges under v_map
ImageEdges(G, p, v_map) ==
    {i \in DOMAIN G.es :
        \E j \in DOMAIN p.es :
            /\ G.es[i].label = p.es[j].label
            /\ \/ /\ G.es[i].source = v_map[p.es[j].source]
                  /\ G.es[i].target = v_map[p.es[j].target]
               \/ /\ ~directed
                  /\ G.es[i].source = v_map[p.es[j].target]
                  /\ G.es[i].target = v_map[p.es[j].source]}

\* faulty variant of ExtendEdge: the new vertex carries the label of the
\* mapped end of the edge
ExtendEdge_mislabel(G, p, v_map, acc, Ge) ==
    LET e   == G.es[Ge]
        cur == acc.p_new
    IN IF ~InMap(v_map, e.source)
       THEN LET g1 == add_vertex(cur, G.label[e.target])
            IN [none  |-> FALSE,
                p_new |-> add_edge(g1, vcount(g1), Gv_to_pv(v_map, e.target), e.label),
                taken |-> acc.taken \cup {Ge},
                cov   |-> acc.cov \cup {Ge}]
       ELSE IF ~InMap(v_map, e.target)
       THEN LET g1 == add_vertex(cur, G.label[e.source])
            IN [none  |-> FALSE,
                p_new |-> add_edge(g1, Gv_to_pv(v_map, e.source), vcount(g1), e.label),
                taken |-> acc.taken \cup {Ge},
                cov   |-> acc.cov \cup {Ge}]
       ELSE LET pv_source_index == Gv_to_pv(v_map, e.source)
                pv_target_index == Gv_to_pv(v_map, e.target)
            IN IF ~are_connected(p, pv_source_index, pv_target_index)
               THEN [none  |-> FALSE,
                     p_new |-> safe_add_edge_at(cur, pv_source_index,
                                                pv_target_index, e.label),
                     taken |-> acc.taken \cup {Ge},
                     cov   |-> acc.cov \cup {Ge}]
               ELSE [acc EXCEPT !.taken = @ \cup {Ge}]

\* faulty variant of ExtendEdge: an edge between two mapped vertices is
\* marked taken and never added
ExtendEdge_noclose(G, p, v_map, acc, Ge) ==
    LET e   == G.es[Ge]
        cur == acc.p_new
    IN IF ~InMap(v_map, e.source)
       THEN LET g1 == add_vertex(cur, G.label[e.source])
            IN [none  |-> FALSE,
                p_new |-> add_edge(g1, vcount(g1), Gv_to_pv(v_map, e.target), e.label),
                taken |-> acc.taken \cup {Ge},
                cov   |-> acc.cov \cup {Ge}]
       ELSE IF ~InMap(v_map, e.target)
       THEN LET g1 == add_vertex(cur, G.label[e.target])
            IN [none  |-> FALSE,
                p_new |-> add_edge(g1, Gv_to_pv(v_map, e.source), vcount(g1), e.label),
                taken |-> acc.taken \cup {Ge},
                cov   |-> acc.cov \cup {Ge}]
       ELSE [acc EXCEPT !.taken = @ \cup {Ge}]

\* body of `for Ge in G_edges`; acc = [none, p_new, taken, cov], where none
\* says p_new is None (p_new then holds p, the graph a copy is made of) and
\* cov is the set of batch edges the graph p_new is built from
ExtendEdge(G, p, v_map, acc, Ge) ==
    LET e   == G.es[Ge]
        cur == acc.p_new
    IN IF ~InMap(v_map, e.source)
       THEN LET g1 == add_vertex(cur, G.label[e.source])
            IN [none  |-> FALSE,
                p_new |-> add_edge(g1, vcount(g1), Gv_to_pv(v_map, e.target), e.label),
                taken |-> acc.taken \cup {Ge},
                cov   |-> acc.cov \cup {Ge}]
       ELSE IF ~InMap(v_map, e.target)
       THEN LET g1 == add_vertex(cur, G.label[e.target])
            IN [none  |-> FALSE,
                p_new |-> add_edge(g1, Gv_to_pv(v_map, e.source), vcount(g1), e.label),
                taken |-> acc.taken \cup {Ge},
                cov   |-> acc.cov \cup {Ge}]
       ELSE LET pv_source_index == Gv_to_pv(v_map, e.source)
                pv_target_index == Gv_to_pv(v_map, e.target)
            IN IF ~are_connected(p, pv_source_index, pv_target_index)
               THEN [none  |-> FALSE,
                     p_new |-> safe_add_edge_at(cur, pv_source_index,
                                                pv_target_index, e.label),
                     taken |-> acc.taken \cup {Ge},
                     cov   |-> acc.cov \cup {Ge}]
               ELSE [acc EXCEPT !.taken = @ \cup {Ge}]

RECURSIVE ExtendEdges(_, _, _, _, _)
ExtendEdges(G, p, v_map, acc, G_edges) ==
    IF G_edges = << >> THEN acc
    ELSE ExtendEdges(G, p, v_map, ExtendEdge(G, p, v_map, acc, Head(G_edges)),
                     Tail(G_edges))

\* faulty variant of ExtendVertex: no comparison of the incident edge counts
ExtendVertex_nofilter(G, p, v_map, acc, p_v) ==
    ExtendEdges(G, p, v_map, acc, incident(G, v_map[p_v]))

\* body of `for p_v, G_v in enumerate(v_map)`
ExtendVertex(G, p, v_map, acc, p_v) ==
    LET G_edges == incident(G, v_map[p_v])
        p_edges == incident(p, p_v)
    IN IF Len(G_edges) <= Len(p_edges) THEN acc
       ELSE ExtendEdges(G, p, v_map, acc, G_edges)

RECURSIVE ExtendVertices(_, _, _, _, _)
ExtendVertices(G, p, v_map, acc, p_v) ==
    IF p_v > Len(v_map) THEN acc
    ELSE ExtendVertices(G, p, v_map, ExtendVertex(G, p, v_map, acc, p_v), p_v + 1)

\* body of `for v_map in maps`; st = [new_patterns, taken]
ExtendEmbedding(G, p, st, v_map) ==
    LET acc == ExtendVertices(G, p, v_map,
                   [none |-> TRUE, p_new |-> p, taken |-> st.taken,
                    cov |-> ImageEdges(G, p, v_map)], 1)
    IN [new_patterns |-> IF acc.none THEN st.new_patterns
                         ELSE Append(st.new_patterns,
                                     [graph |-> acc.p_new, cov |-> acc.cov]),
        taken        |-> acc.taken]

RECURSIVE ExtendEmbeddings(_, _, _, _)
ExtendEmbeddings(G, p, st, maps) ==
    IF maps = << >> THEN st
    ELSE CHOOSE r \in {ExtendEmbeddings(G, p, st2, Tail(maps)) :
                          st2 \in {ExtendEmbedding(G, p, st, Head(maps))}} : TRUE

\* the embeddings of one dictionary pattern (match_strict is True)
maps_of(G, p) ==
    IF ecount(p) >= ecount(G) THEN << >> ELSE get_subisomorphisms_vf2(G, p)

\* faulty variant of MatchPatterns: only the first entry of P is matched
MatchPatterns_first(G, Ps, st, i) ==
    IF i > Len(Ps) \/ i > 1 THEN st
    ELSE ExtendEmbeddings(G, Ps[1].graph, st, maps_of(G, Ps[1].graph))

\* `for p, c, s in self.P`, from entry i on
RECURSIVE MatchPatterns(_, _, _, _)
MatchPatterns(G, Ps, st, i) ==
    IF i > Len(Ps) THEN st
    ELSE CHOOSE r \in {MatchPatterns(G, Ps, st2, i + 1) :
                          st2 \in {ExtendEmbeddings(G, Ps[i].graph, st,
                                                    maps_of(G, Ps[i].graph))}} : TRUE

\* the single-edge pattern of batch edge e
single_edge(G, e) ==
    add_edge(add_vertex(add_vertex(Graph, G.label[G.es[e].source]),
                        G.label[G.es[e].target]),
             1, 2, G.es[e].label)

\* faulty variant: only the first edge that is not taken gets a pattern
Residue_first(G, taken, e) ==
    LET free == {i \in e..ecount(G) : i \notin taken}
    IN IF free = {} THEN << >>
       ELSE LET i == CHOOSE j \in free : \A k \in free : j <= k
            IN << [graph |-> single_edge(G, i), cov |-> {i}] >>

\* `for e in G_batch.es: if e not in taken`, from edge e on
RECURSIVE Residue(_, _, _)
Residue(G, taken, e) ==
    IF e > ecount(G) THEN << >>
    ELSE (IF e \notin taken
          THEN << [graph |-> single_edge(G, e), cov |-> {e}] >>
          ELSE << >>) \o Residue(G, taken, e + 1)

\* the graphs iterate_batch passes to update_dictionary, in call order
UpdateCalls(D, G) ==
    LET st == MatchPatterns(G, D.P, [new_patterns |-> << >>, taken |-> {}], 1)
    IN [calls |-> st.new_patterns \o Residue(G, st.taken, 1),
        taken |-> st.taken]

RECURSIVE ApplyUpdates(_, _)
ApplyUpdates(D, calls) ==
    IF calls = << >> THEN D
    ELSE ApplyUpdates(update_dictionary(D, Head(calls).graph), Tail(calls))

\* Compressor.iterate_batch on D = [P, dict_trimmed]
iterate_batch(D, G) ==
    IF ecount(G) = 0 THEN D
    ELSE ApplyUpdates(D, UpdateCalls(D, G).calls)

(* ------------------------------ stream driver -------------------------- *)
\* Graph(directed=self._directed) as the batch graph: vertices carry names
NamedGraph == [name |-> << >>, label |-> << >>, es |-> << >>]

HasName(g, nm) == \E i \in DOMAIN g.name : g.name[i] = nm

\* graph.vs.find(name=nm).index
find(g, nm) == CHOOSE i \in DOMAIN g.name : g.name[i] = nm

\* graph.add_vertex(nm, label=lab)
add_named_vertex(g, nm, lab) ==
    [g EXCEPT !.name = Append(@, nm), !.label = Append(@, lab)]

\* Compressor.safe_add_edge on the batch graph and vertex ids; the result is
\* [err, graph], err being "KeyError" when an id has no label on record
safe_add_edge(graph, labels, source, target, lab) ==
    IF ~HasName(graph, source) /\ source \notin DOMAIN labels
    THEN [err |-> "KeyError", graph |-> graph]
    ELSE LET g1 == IF HasName(graph, source) THEN graph
                   ELSE add_named_vertex(graph, source, labels[source])
         IN IF ~HasName(g1, target) /\ target \notin DOMAIN labels
            THEN [err |-> "KeyError", graph |-> g1]
            ELSE LET g2 == IF HasName(g1, target) THEN g1
                           ELSE add_named_vertex(g1, target, labels[target])
                     s  == find(g2, source)
                     t  == find(g2, target)
                 IN [err   |-> "none",
                     graph |-> IF ~are_connected(g2, s, t)
                               THEN add_edge(g2, s, t, lab) ELSE g2]

\* Compressor.parse_line; the result is [err, graph, labels]
parse_line(line, graph, labels) ==
    CASE line.kind = "blank" ->      \* raw is empty: raw[0] fails
            [err |-> "IndexError", graph |-> graph, labels |-> labels]
      [] line.kind = "%" ->
            [err |-> "none", graph |-> graph, labels |-> labels]
      [] line.kind = "v" ->
            [err    |-> "none",
             graph  |-> graph,
             labels |-> [x \in DOMAIN labels \cup {line.id} |->
                            IF x = line.id THEN line.label ELSE labels[x]]]
      [] line.kind \in {"e", "u", "d"} ->
            IF HasName(graph, line.source) /\ HasName(graph, line.target)
            THEN IF ~are_connected(graph, find(graph, line.source),
                                   find(graph, line.target))
                 THEN IF add_implicit_vertices
                      THEN safe_add_edge(graph, labels, line.source,
                                         line.target, line.label)
                           @@ [labels |-> labels]
                      ELSE [err    |-> "none",
                            graph  |-> add_edge(graph, find(graph, line.source),
                                                find(graph, line.target),
                                                line.label),
                            labels |-> labels]
                 ELSE [err |-> "none", graph |-> graph, labels |-> labels]
            ELSE IF add_implicit_vertices
                 THEN safe_add_edge(graph, labels, line.source, line.target,
                                    line.label) @@ [labels |-> labels]
                 ELSE [err |-> "ValueError", graph |-> graph, labels |-> labels]
      [] OTHER ->
            [err |-> "ValueError", graph |-> graph, labels |-> labels]

\* faulty variant: no line is counted as an edge
counts_as_edge_never(line) == FALSE

\* compress_file: `if line[0] == 'e'`
counts_as_edge(line) == line.kind = "e"

\* compress_file: the batch is processed once edge_count is a positive
\* multiple of alpha
batch_full(n, alpha) == n # 0 /\ n % alpha = 0

\* faulty variant: the batch graph is kept after the batch was processed
next_batch_kept(full, G) == G

\* compress_file: `G_batch = Graph(directed=self._directed)` after a batch
next_batch(full, G) == IF full THEN NamedGraph ELSE G

\* faulty variant: what is left at the end of the file is not processed
leftovers_dropped(D, G) == D

\* compress_file: `if len(G_batch.es) > 0: self.iterate_batch(G_batch)`
leftovers(D, G) == IF ecount(G) > 0 THEN iterate_batch(D, G) ELSE D

\* what compress_file works on: the dictionary, the label map and its locals,
\* with the exception raised (if any), the batch graphs handed to
\* iterate_batch so far and the number of edges added to batch graphs
FileState(Q, trimmed, labels) ==
    [P |-> Q, dict_trimmed |-> trimmed, vid_to_label |-> labels,
     G_batch |-> NamedGraph, edge_count |-> 0, line_count |-> 0,
     err |-> "none", batches |-> << >>, added |-> 0]

\* compress_file: one iteration of `for line in f`
read_line(st, line) ==
    LET n_edges == IF counts_as_edge(line) THEN st.edge_count + 1
                   ELSE st.edge_count
        r == parse_line(line, st.G_batch, st.vid_to_label)
        full == r.err = "none" /\ batch_full(n_edges, batch_size)
        D == IF full
             THEN iterate_batch([P |-> st.P, dict_trimmed |-> st.dict_trimmed],
                                r.graph)
             ELSE [P |-> st.P, dict_trimmed |-> st.dict_trimmed]
    IN [P            |-> D.P,
        dict_trimmed |-> D.dict_trimmed,
        vid_to_label |-> r.labels,
        G_batch      |-> next_batch(full, r.graph),
        edge_count   |-> n_edges,
        line_count   |-> st.line_count + 1,
        err          |-> r.err,
        batches      |-> IF full
                         THEN Append(st.batches, [G |-> r.graph, at |-> "loop"])
                         ELSE st.batches,
        added        |-> st.added + ecount(r.graph) - ecount(st.G_batch)]

\* faulty variant: the label map is wiped whatever the flag says
end_of_file_wipe(st) ==
    LET D == leftovers([P |-> st.P, dict_trimmed |-> st.dict_trimmed],
                       st.G_batch)
    IN [st EXCEPT
          !.P = D.P,
          !.dict_trimmed = D.dict_trimmed,
          !.vid_to_label = << >>,
          !.batches = IF ecount(st.G_batch) > 0
                      THEN Append(@, [G |-> st.G_batch, at |-> "eof"])
                      ELSE @]

\* compress_file: after the loop, the leftovers and the wipe of the label map
end_of_file(st) ==
    LET D == leftovers([P |-> st.P, dict_trimmed |-> st.dict_trimmed],
                       st.G_batch)
    IN [st EXCEPT
          !.P = D.P,
          !.dict_trimmed = D.dict_trimmed,
          !.vid_to_label = IF label_history_per_file THEN << >> ELSE @,
          !.batches = IF ecount(st.G_batch) > 0
                      THEN Append(@, [G |-> st.G_batch, at |-> "eof"])
                      ELSE @]

\* compress_file: the loop over the lines, left at the first exception
RECURSIVE read_lines(_, _)
read_lines(st, lines) ==
    IF lines = << >> \/ st.err # "none" THEN st
    ELSE read_lines(read_line(st, Head(lines)), Tail(lines))

\* Compressor.compress_file on a file holding lines
compress_file(Q, trimmed, labels, lines) ==
    LET st == read_lines(FileState(Q, trimmed, labels), lines)
    IN IF st.err # "none" THEN st ELSE end_of_file(st)

(* ----------------------------- serialization --------------------------- *)
\* the attributes of a Compressor that processing changes; _lines_read is
\* set to 0 by __init__ and never written again
Compressor(count, trimmed, Q, labels) ==
    [compress_count |-> count, lines_read |-> 0, dict_trimmed |-> trimmed,
     P |-> Q, vid_to_label |-> labels]

\* Compressor.save_state: the tuple that is pickled
save_state(c) == <<c.compress_count, c.lines_read, c.dict_trimmed, c.P>>

\* Compressor.import_state on the compressor c
import_state(c, saved) ==
    [c EXCEPT !.compress_count = saved[1],
              !.lines_read = saved[2],
              !.dict_trimmed = saved[3],
              !.P = saved[4]]

(* --------------------------------- inputs ------------------------------ *)
\* the label the input declares for vertex id
VLabelOf(id) == ((id - 1) % MaxVLabel) + 1

AllLabels == [id \in 1..MaxBatchV |-> VLabelOf(id)]

\* the edges an input may hold: id -> next id, around a cycle
CandSource(i) == i

CandTarget(i) == (i % MaxBatchV) + 1

\* the batch graph the parser builds from the candidate edges c marks
\* (c[i] = 0: edge i absent, otherwise its label), from edge i on
RECURSIVE BuildBatch(_, _, _)
BuildBatch(g, c, i) ==
    IF i > MaxBatchV THEN g
    ELSE BuildBatch(IF c[i] = 0 THEN g
                    ELSE safe_add_edge(g, AllLabels, CandSource(i),
                                       CandTarget(i), c[i]).graph,
                    c, i + 1)

\* the labels input edge i may carry
ELabelsOf(i) == IF i <= MaxVarE THEN 1..MaxELabel ELSE {1}

BatchGraphs ==
    {BuildBatch(NamedGraph, c, 1) :
        c \in {d \in [1..MaxBatchV -> 0..MaxELabel] :
                  /\ \E i \in 1..MaxBatchV : d[i] # 0
                  /\ \A i \in 1..MaxBatchV : d[i] # 0 => d[i] \in ELabelsOf(i)}}

\* the vertices reachable from the set S, edges taken in both directions
RECURSIVE Reach(_, _)
Reach(g, S) ==
    LET N == S \cup {v \in DOMAIN g.label :
                        \E i \in DOMAIN g.es :
                            \/ g.es[i].source \in S /\ g.es[i].target = v
                            \/ g.es[i].target \in S /\ g.es[i].source = v}
    IN IF N = S THEN S ELSE Reach(g, N)

Connected(g) == vcount(g) = 0 \/ Reach(g, {1}) = DOMAIN g.label

\* the graphs a caller passes to update_dictionary directly
PatternInputs ==
    {[label |-> g.label, es |-> g.es] : g \in {b \in BatchGraphs : Connected(b)}}

\* the graphs passed to update_dictionary in the longer behaviours: at most
\* two edges, every edge label 1
UpdInputs ==
    {g \in PatternInputs :
        ecount(g) <= 2 /\ \A i \in DOMAIN g.es : g.es[i].label = 1}

\* the lines a file may hold: a declaration of each vertex id, an edge line
\* for each candidate edge, a 'u' and a 'd' line for the first of them, a
\* comment, an empty line and an unknown line
Lines ==
    {[kind |-> "v", id |-> i, label |-> VLabelOf(i)] : i \in 1..MaxBatchV}
    \cup {[kind |-> "e", source |-> CandSource(i), target |-> CandTarget(i),
           label |-> l] : <<i, l>> \in {c \in (1..MaxBatchV) \X (1..MaxELabel) :
                                           c[2] \in ELabelsOf(c[1])}}
    \cup {[kind |-> k, source |-> CandSource(1), target |-> CandTarget(1),
           label |-> 1] : k \in {"u", "d"}}
    \cup {[kind |-> "%"], [kind |-> "blank"], [kind |-> "bad"]}

\* the lines `v id label` and `e source target label`
VLine(id, lab) == [kind |-> "v", id |-> id, label |-> lab]

ELine(source, target, lab) ==
    [kind |-> "e", source |-> source, target |-> target, label |-> lab]

\* scenario 1: a single triangle
Scenario1 ==
    << VLine(1, 1), VLine(2, 1), VLine(3, 1),
       ELine(1, 2, 9), ELine(2, 3, 9), ELine(1, 3, 9) >>

\* scenario 2: two disjoint triangles
Scenario2 ==
    << VLine(1, 1), VLine(2, 1), VLine(3, 1),
       VLine(4, 1), VLine(5, 1), VLine(6, 1),
       ELine(1, 2, 9), ELine(2, 3, 9), ELine(1, 3, 9),
       ELine(4, 5, 9), ELine(5, 6, 9), ELine(4, 6, 9) >>

\* scenario 3: n repetitions of one edge line between a (id 1, label 1) and
\* b (id 2, label 2)
Scenario3(n) ==
    << VLine(1, 1), VLine(2, 2) >> \o [i \in 1..n |-> ELine(1, 2, 7)]

\* scenario 4: 6 pairwise non-isomorphic single-edge patterns, one per line
Scenario4 ==
    << VLine(1, 1), VLine(2, 1) >> \o [k \in 1..6 |-> ELine(1, 2, k)]

\* a file whose edges 1-2 come on `d` lines and whose edges 2-3 on `e` lines
MixedKeywords ==
    << VLine(1, 1), VLine(2, 1), VLine(3, 1),
       [kind |-> "d", source |-> 1, target |-> 2, label |-> 1], ELine(2, 3, 1),
       [kind |-> "d", source |-> 1, target |-> 2, label |-> 1], ELine(2, 3, 1) >>

ScenarioFiles ==
    {Scenario1, Scenario2, Scenario4, MixedKeywords}
        \cup {Scenario3(n) : n \in 1..MaxReps}

(* --------------------------------- actions ----------------------------- *)
Dict == [P |-> P, dict_trimmed |-> dict_trimmed]

Entries(Q) == {Q[i] : i \in DOMAIN Q}

\* Compressor.__init__
InitCommon ==
    /\ P = << >>
    /\ dict_trimmed = 0
    /\ directed \in BOOLEAN
    /\ vid_to_label = << >>
    /\ compress_count = 0
    /\ pc = "idle"
    /\ G_batch = NamedGraph
    /\ edge_count = 0
    /\ line_count = 0
    /\ op = [name |-> "init"]
    /\ seen = {}
    /\ nops = 0

Init ==
    /\ InitCommon
    /\ dict_size \in (1..MaxTheta) \cup {INF}
    /\ batch_size = 10
    /\ add_implicit_vertices = TRUE
    /\ label_history_per_file = FALSE

\* a direct call of update_dictionary(pattern), pattern among inputs
UpdateCall(inputs, max) ==
    /\ pc = "idle"
    /\ nops < max
    /\ \E pattern \in inputs :
          LET D == update_dictionary(Dict, pattern)
          IN /\ P' = D.P
             /\ dict_trimmed' = D.dict_trimmed
             /\ seen' = seen \cup Entries(D.P)
             /\ op' = [name |-> "update_dictionary", pattern |-> pattern,
                       P0 |-> P, trimmed0 |-> dict_trimmed]
    /\ nops' = nops + 1
    /\ UNCHANGED <<config, file_vars>>

\* a direct call of trim_dictionary()
TrimCall(max) ==
    /\ pc = "idle"
    /\ nops < max
    /\ LET D == trim_dictionary(Dict, threshold_multiplier)
       IN /\ P' = D.P
          /\ dict_trimmed' = D.dict_trimmed
          /\ seen' = seen \cup Entries(D.P)
    /\ op' = [name |-> "trim_dictionary", P0 |-> P, trimmed0 |-> dict_trimmed]
    /\ nops' = nops + 1
    /\ UNCHANGED <<config, file_vars>>

Call_update_dictionary == UpdateCall(PatternInputs, MaxOps)

Call_trim_dictionary == TrimCall(MaxOps)

\* a direct call of iterate_batch(G), G among inputs
BatchCall(inputs, max) ==
    /\ pc = "idle"
    /\ nops < max
    /\ \E G \in inputs :
          LET D == iterate_batch(Dict, G)
              U == UpdateCalls(Dict, G)
          IN /\ P' = D.P
             /\ dict_trimmed' = D.dict_trimmed
             /\ seen' = seen \cup Entries(D.P)
             /\ op' = [name |-> "iterate_batch", G |-> G,
                       calls |-> U.calls, taken |-> U.taken,
                       P0 |-> P, trimmed0 |-> dict_trimmed]
    /\ nops' = nops + 1
    /\ UNCHANGED <<config, file_vars>>

Call_iterate_batch == BatchCall(BatchGraphs, MaxOps)

Next ==
    \/ Call_update_dictionary
    \/ Call_trim_dictionary
    \/ Call_iterate_batch

Spec == Init /\ [][Next]_vars

\* update and trim calls alone, on a finite theta and fewer patterns, for
\* longer behaviours
InitUpd ==
    /\ InitCommon
    /\ dict_size \in 1..MaxTheta
    /\ batch_size = 10
    /\ add_implicit_vertices = TRUE
    /\ label_history_per_file = FALSE

Upd_update_dictionary == UpdateCall(UpdInputs, MaxUpdOps)

Upd_trim_dictionary == TrimCall(MaxUpdOps)

NextUpd ==
    \/ Upd_update_dictionary
    \/ Upd_trim_dictionary

SpecUpd == InitUpd /\ [][NextUpd]_vars

\* compress_file, one step per line of the file
InitFile ==
    /\ InitCommon
    /\ dict_size \in (1..MaxTheta) \cup {INF}
    /\ batch_size \in 1..MaxAlpha
    /\ add_implicit_vertices \in BOOLEAN
    /\ label_history_per_file \in BOOLEAN

\* the edge line names two vertex ids that a vertex line has declared
Declared(line) ==
    /\ line.kind \in {"e", "u", "d"}
    /\ line.source \in DOMAIN vid_to_label
    /\ line.target \in DOMAIN vid_to_label

\* compress_file up to the loop over the lines
OpenFile ==
    /\ pc = "idle"
    /\ compress_count < MaxFiles
    /\ compress_count' = compress_count + 1
    /\ G_batch' = NamedGraph
    /\ line_count' = 0
    /\ edge_count' = 0
    /\ pc' = "reading"
    /\ op' = [name |-> "compress_file", status |-> "reading", err |-> "none",
              declared_edge |-> FALSE, P0 |-> P, trimmed0 |-> dict_trimmed,
              batches |-> << >>, added |-> 0, line |-> [kind |-> "none"],
              lines |-> << >>, labelsF |-> vid_to_label,
              G0 |-> NamedGraph, labels0 |-> vid_to_label, Pl |-> P]
    /\ UNCHANGED <<P, dict_trimmed, config, vid_to_label, seen, nops>>

\* the state of the compress_file call in progress
Here ==
    [P |-> P, dict_trimmed |-> dict_trimmed, vid_to_label |-> vid_to_label,
     G_batch |-> G_batch, edge_count |-> edge_count, line_count |-> line_count,
     err |-> "none", batches |-> op.batches, added |-> op.added]

\* one iteration of `for line in f`; an exception of parse_line leaves
\* compress_file
Read(line) ==
    /\ pc = "reading"
    /\ LET st == read_line(Here, line)
       IN /\ line_count' = st.line_count
          /\ edge_count' = st.edge_count
          /\ vid_to_label' = st.vid_to_label
          /\ P' = st.P
          /\ dict_trimmed' = st.dict_trimmed
          /\ seen' = seen \cup Entries(st.P)
          /\ G_batch' = st.G_batch
          /\ pc' = IF st.err = "none" THEN "reading" ELSE "idle"
          /\ op' = [op EXCEPT
                      !.status = IF st.err = "none" THEN "reading" ELSE "raised",
                      !.err = st.err,
                      !.declared_edge = @ \/ (st.err = "none" /\ Declared(line)),
                      !.batches = st.batches,
                      !.added = st.added,
                      !.line = line,
                      !.lines = Append(@, line),
                      !.G0 = G_batch,
                      !.labels0 = vid_to_label,
                      !.Pl = P]
    /\ nops' = nops + 1
    /\ UNCHANGED <<config, compress_count>>

\* the next line of the file is any of Lines
ReadLine ==
    /\ nops < MaxLines
    /\ \E line \in Lines : Read(line)

\* the end of the file: the leftovers, then the wipe of the label history
EndOfFile ==
    /\ pc = "reading"
    /\ LET st == end_of_file(Here)
       IN /\ P' = st.P
          /\ dict_trimmed' = st.dict_trimmed
          /\ seen' = seen \cup Entries(st.P)
          /\ vid_to_label' = st.vid_to_label
          /\ op' = [op EXCEPT !.status = "returned",
                              !.batches = st.batches,
                              !.line = [kind |-> "none"],
                              !.labels0 = vid_to_label,
                              !.Pl = P]
    /\ pc' = "idle"
    /\ UNCHANGED <<config, compress_count, G_batch, edge_count, line_count, nops>>

NextFile ==
    \/ OpenFile
    \/ ReadLine
    \/ EndOfFile

SpecFile == InitFile /\ [][NextFile]_vars

\* compress_file on the files of the end-to-end scenarios and their prefixes
InitScen ==
    /\ InitCommon
    /\ dict_size \in (1..MaxScenTheta) \cup {INF}
    /\ batch_size \in 1..MaxScenAlpha
    /\ add_implicit_vertices = TRUE
    /\ label_history_per_file = FALSE

\* the next line of the file is the one that follows the lines read so far
\* in a scenario file
ReadScenario ==
    /\ pc = "reading"
    /\ \E file \in ScenarioFiles :
        /\ Len(op.lines) < Len(file)
        /\ SubSeq(file, 1, Len(op.lines)) = op.lines
        /\ Read(file[Len(op.lines) + 1])

NextScen ==
    \/ OpenFile
    \/ ReadScenario
    \/ EndOfFile

SpecScen == InitScen /\ [][NextScen]_vars

(* --------------------- iterate_batch, step by step ---------------------- *)
\* faulty variant of match_entry: the extensions of an entry are passed to
\* update_dictionary as soon as the entry has been matched
match_entry_eager(D, G, st, i) ==
    LET st2   == ExtendEmbeddings(G, D.P[i].graph, st, maps_of(G, D.P[i].graph))
        fresh == SubSeq(st2.new_patterns, Len(st.new_patterns) + 1,
                        Len(st2.new_patterns))
        D2    == ApplyUpdates(D, fresh)
    IN [P |-> D2.P, dict_trimmed |-> D2.dict_trimmed, st |-> st2]

\* faulty variant of match_entry: the extension is built on the graph of the
\* entry itself, not on a copy
match_entry_inplace(D, G, st, i) ==
    LET st2 == ExtendEmbeddings(G, D.P[i].graph, st, maps_of(G, D.P[i].graph))
    IN [P |-> IF Len(st2.new_patterns) > Len(st.new_patterns)
              THEN [D.P EXCEPT ![i].graph =
                       st2.new_patterns[Len(st2.new_patterns)].graph]
              ELSE D.P,
        dict_trimmed |-> D.dict_trimmed, st |-> st2]

\* body of `for p, c, s in self.P` for entry i of D.P: new_patterns and taken
\* grow, the dictionary is left as it is
match_entry(D, G, st, i) ==
    [P |-> D.P, dict_trimmed |-> D.dict_trimmed,
     st |-> ExtendEmbeddings(G, D.P[i].graph, st, maps_of(G, D.P[i].graph))]

\* the variables a step of iterate_batch leaves alone
batch_frame ==
    <<config, vid_to_label, compress_count, G_batch, edge_count, line_count>>

\* entry of iterate_batch(G): the empty check and the local lists
BeginBatch ==
    /\ pc = "idle"
    /\ nops < MaxStepOps
    /\ \E G \in BatchGraphs :
          /\ op' = [name |-> "iterate_batch", G |-> G, P0 |-> P,
                    trimmed0 |-> dict_trimmed, i |-> 1, j |-> 1, e |-> 1,
                    new_patterns |-> << >>, taken |-> {}, events |-> << >>]
          /\ pc' = IF ecount(G) = 0 THEN "idle" ELSE "matching"
    /\ nops' = nops + 1
    /\ UNCHANGED <<P, dict_trimmed, seen, batch_frame>>

\* one round of `for p, c, s in self.P`, or the end of that loop
MatchStep ==
    /\ pc = "matching"
    /\ IF op.i <= Len(P)
       THEN LET r == match_entry(Dict, op.G, [new_patterns |-> op.new_patterns,
                                               taken |-> op.taken], op.i)
            IN /\ P' = r.P
               /\ dict_trimmed' = r.dict_trimmed
               /\ op' = [op EXCEPT !.i = @ + 1,
                                   !.new_patterns = r.st.new_patterns,
                                   !.taken = r.st.taken,
                                   !.events = Append(@, [kind |-> "match",
                                                         entry |-> op.i])]
               /\ pc' = pc
       ELSE /\ pc' = "installing"
            /\ UNCHANGED <<P, dict_trimmed, op>>
    /\ seen' = seen \cup Entries(P')
    /\ UNCHANGED <<nops, batch_frame>>

\* one round of `for g in new_patterns`, or the end of that loop
InstallStep ==
    /\ pc = "installing"
    /\ IF op.j <= Len(op.new_patterns)
       THEN LET D == update_dictionary(Dict, op.new_patterns[op.j].graph)
            IN /\ P' = D.P
               /\ dict_trimmed' = D.dict_trimmed
               /\ op' = [op EXCEPT !.j = @ + 1,
                                   !.events = Append(@, [kind |-> "extension",
                                                         entry |-> op.j])]
               /\ pc' = pc
       ELSE /\ pc' = "residue"
            /\ UNCHANGED <<P, dict_trimmed, op>>
    /\ seen' = seen \cup Entries(P')
    /\ UNCHANGED <<nops, batch_frame>>

\* one round of `for e in G_batch.es`, or the return of iterate_batch
ResidueStep ==
    /\ pc = "residue"
    /\ IF op.e <= ecount(op.G)
       THEN LET D == IF op.e \notin op.taken
                     THEN update_dictionary(Dict, single_edge(op.G, op.e))
                     ELSE Dict
            IN /\ P' = D.P
               /\ dict_trimmed' = D.dict_trimmed
               /\ op' = [op EXCEPT !.e = @ + 1,
                                   !.events = IF op.e \notin op.taken
                                              THEN Append(@, [kind |-> "residue",
                                                              entry |-> op.e])
                                              ELSE @]
               /\ pc' = pc
       ELSE /\ pc' = "idle"
            /\ UNCHANGED <<P, dict_trimmed, op>>
    /\ seen' = seen \cup Entries(P')
    /\ UNCHANGED <<nops, batch_frame>>

Step_update_dictionary == UpdateCall(PatternInputs, MaxStepOps)

NextSteps ==
    \/ Step_update_dictionary
    \/ BeginBatch
    \/ MatchStep
    \/ InstallStep
    \/ ResidueStep

SpecSteps == Init /\ [][NextSteps]_vars

(* ------------------- direct calls on the scenario graphs ---------------- *)
\* the path a-b-c of scenario 5: vertex labels pairwise distinct
PathABC ==
    [label |-> <<1, 2, 3>>,
     es |-> << [source |-> 1, target |-> 2, label |-> 1],
               [source |-> 2, target |-> 3, label |-> 1] >>]

\* the batch of scenario 5: the edges a-b, b-c, c-a
TriangleABC ==
    add_edge(add_edge(add_edge([label |-> <<1, 2, 3>>, es |-> << >>],
                               1, 2, 1), 2, 3, 1), 3, 1, 1)

\* a batch of two disjoint copies of the edge (1)-[1]-(2)
TwoCopies ==
    add_edge(add_edge([label |-> <<1, 2, 1, 2>>, es |-> << >>], 1, 2, 1),
             3, 4, 1)

\* a batch triangle on vertices labelled 1 with edges labelled 9
TriangleBatch ==
    add_edge(add_edge(add_edge([label |-> <<1, 1, 1>>, es |-> << >>],
                               1, 2, 9), 2, 3, 9), 1, 3, 9)

CasePatterns ==
    {PathABC,
     [label |-> <<1, 2>>, es |-> <<[source |-> 1, target |-> 2, label |-> 1]>>],
     [label |-> <<1, 1>>, es |-> <<[source |-> 1, target |-> 2, label |-> 9]>>]}

CaseBatches == {TriangleABC, TwoCopies, TriangleBatch}

Case_update_dictionary == UpdateCall(CasePatterns, MaxCaseOps)

Case_iterate_batch == BatchCall(CaseBatches, MaxCaseOps)

NextCase ==
    \/ Case_update_dictionary
    \/ Case_iterate_batch

SpecCase == Init /\ [][NextCase]_vars

(* --------------------------------- claims ------------------------------ *)
\* g1 and g2 are isomorphic under a bijection that preserves vertex labels
\* and edge labels (and edge direction in a directed graph)
Arc(g, u, v, l) ==
    \E i \in DOMAIN g.es :
        /\ g.es[i].label = l
        /\ \/ <<g.es[i].source, g.es[i].target>> = <<u, v>>
           \/ ~directed /\ <<g.es[i].source, g.es[i].target>> = <<v, u>>

LabelIsomorphic(g1, g2) ==
    /\ Len(g1.label) = Len(g2.label)
    /\ Len(g1.es) = Len(g2.es)
    /\ \E f \in [DOMAIN g1.label -> DOMAIN g2.label] :
          /\ \A u, v \in DOMAIN g1.label : u # v => f[u] # f[v]
          /\ \A u \in DOMAIN g1.label : g1.label[u] = g2.label[f[u]]
          /\ \A u, v \in DOMAIN g1.label :
                \A l \in {g1.es[i].label : i \in DOMAIN g1.es}
                         \cup {g2.es[i].label : i \in DOMAIN g2.es} :
                   Arc(g1, u, v, l) <=> Arc(g2, f[u], f[v], l)

MatchSet(Q, g) == {i \in DOMAIN Q : LabelIsomorphic(Q[i].graph, g)}

Least(S) == CHOOSE x \in S : \A y \in S : x <= y

\* C1: every entry (g, c, s) of P has c >= 1 and s = (|E(g)| - 1) * (c - 1)
C1_ScoreFormula ==
    \A i \in DOMAIN P :
        /\ P[i].count >= 1
        /\ P[i].score = (Len(P[i].graph.es) - 1) * (P[i].count - 1)

\* C1 witness: after a trim, an entry of several edges counted more than once
C1_Witness ==
    /\ dict_trimmed >= 1
    /\ \E i \in DOMAIN P : P[i].count >= 2 /\ Len(P[i].graph.es) >= 2

\* C2: no two distinct entries of P hold label-isomorphic graphs
C2_NoIsomorphicEntries ==
    \A i, j \in DOMAIN P :
        i # j => ~LabelIsomorphic(P[i].graph, P[j].graph)

\* C2 witness: an update with a graph written differently from the isomorphic
\* entry it was merged into, in a dictionary of several entries
C2_Witness ==
    /\ op.name = "update_dictionary"
    /\ Len(P) >= 2
    /\ \E i \in DOMAIN P :
          /\ P[i].graph # op.pattern
          /\ LabelIsomorphic(P[i].graph, op.pattern)
          /\ P[i].count >= 2

\* C3 as claimed: with a finite bound theta, |P| <= 2 * theta in every state
C3_SizeAtMostTwoTheta ==
    dict_size # INF => Len(P) <= 2 * dict_size

\* C3 amended: with a finite bound theta, |P| <= 2 * theta + 1 in every state
C3_SizeAtMostTwoThetaPlusOne ==
    dict_size # INF => Len(P) <= 2 * dict_size + 1

\* C3 witness: the dictionary holds 2 * theta + 1 entries after a trim has fired
C3_Witness ==
    /\ dict_size # INF
    /\ dict_trimmed >= 1
    /\ Len(P) = 2 * dict_size + 1

\* C4: an update with a graph isomorphic to an entry increments the first such
\* entry only, keeps its graph, the other entries, the order, the length and
\* the trim counter; an entry that is not isomorphic to it is never incremented
C4_UpdateOfKnownPattern ==
    op.name = "update_dictionary" =>
        LET M == MatchSet(op.P0, op.pattern)
        IN /\ M # {} =>
                LET i == Least(M)
                IN /\ Len(P) = Len(op.P0)
                   /\ P[i].graph = op.P0[i].graph
                   /\ P[i].count = op.P0[i].count + 1
                   /\ P[i].score = (Len(P[i].graph.es) - 1) * op.P0[i].count
                   /\ \A j \in DOMAIN P : j # i => P[j] = op.P0[j]
                   /\ dict_trimmed = op.trimmed0
           /\ \A j \in DOMAIN op.P0 : \A k \in DOMAIN P :
                (j \notin M /\ P[k].graph = op.P0[j].graph)
                    => P[k].count = op.P0[j].count

\* C4 witness: the update matched an entry written differently, while the
\* dictionary was above 2 * theta and also held an entry that differs from the
\* pattern only in a label
C4_Witness ==
    /\ op.name = "update_dictionary"
    /\ dict_size # INF
    /\ Len(op.P0) > 2 * dict_size
    /\ \E i \in MatchSet(op.P0, op.pattern) : op.P0[i].graph # op.pattern
    /\ \E j \in DOMAIN op.P0 :
          /\ j \notin MatchSet(op.P0, op.pattern)
          /\ Len(op.P0[j].graph.es) = Len(op.pattern.es)
          /\ Len(op.P0[j].graph.label) = Len(op.pattern.label)

\* C5: an update with a graph isomorphic to no entry trims first and then
\* appends exactly one entry (graph, 1, 0) at the end; the entries that
\* survive are unchanged
C5_UpdateOfNewPattern ==
    (op.name = "update_dictionary" /\ MatchSet(op.P0, op.pattern) = {}) =>
        LET n     == Len(P)
            fires == Len(op.P0) > 2 * dict_size
        IN /\ n = (IF fires THEN dict_size ELSE Len(op.P0)) + 1
           /\ P[n] = [graph |-> op.pattern, count |-> 1, score |-> 0]
           /\ dict_trimmed = op.trimmed0 + (IF fires THEN 1 ELSE 0)
           /\ \A j \in 1..(n - 1) : \E k \in DOMAIN op.P0 : P[j] = op.P0[k]
           /\ ~fires => \A j \in DOMAIN op.P0 : P[j] = op.P0[j]

\* C5 witness: a new pattern was appended after the trim inside the update fired
C5_Witness ==
    /\ op.name = "update_dictionary"
    /\ MatchSet(op.P0, op.pattern) = {}
    /\ Len(op.P0) > 2 * dict_size
    /\ Len(op.pattern.es) >= 2

\* R is the n best entries of Q: descending score, and among equal scores the
\* earlier entries of Q, in their order of Q
IsStableTop(Q, R, n) ==
    /\ Len(R) = n
    /\ \E k \in [1..n -> DOMAIN Q] :
          /\ \A a \in 1..n : R[a] = Q[k[a]]
          /\ \A a, b \in 1..n :
                a < b => \/ Q[k[a]].score > Q[k[b]].score
                         \/ Q[k[a]].score = Q[k[b]].score /\ k[a] < k[b]
          /\ \A m \in DOMAIN Q : \A a \in 1..n :
                (\A b \in 1..n : k[b] # m) =>
                    \/ Q[m].score < Q[k[a]].score
                    \/ Q[m].score = Q[k[a]].score /\ m > k[a]

C7_TrimNoOpAndCounter ==
    /\ op.name = "trim_dictionary" =>
          IF Len(op.P0) > 2 * dict_size
          THEN dict_trimmed = op.trimmed0 + 1
          ELSE P = op.P0 /\ dict_trimmed = op.trimmed0
    /\ op.name = "update_dictionary" =>
          dict_trimmed = op.trimmed0 +
              (IF MatchSet(op.P0, op.pattern) = {} /\ Len(op.P0) > 2 * dict_size
               THEN 1 ELSE 0)
    /\ op.name \in {"trim_dictionary", "update_dictionary", "iterate_batch"} =>
          /\ dict_trimmed >= op.trimmed0
          /\ (dict_trimmed = op.trimmed0 \/ dict_size = INF) =>
                /\ dict_trimmed = op.trimmed0
                /\ Len(P) >= Len(op.P0)
                /\ \A j \in DOMAIN op.P0 : P[j].graph = op.P0[j].graph

\* C7 witness: a trim call at exactly 2 * theta entries, after an earlier trim
C7_Witness ==
    /\ op.name = "trim_dictionary"
    /\ dict_size # INF
    /\ Len(op.P0) = 2 * dict_size
    /\ dict_trimmed >= 1

\* the edges of batch G that h maps an edge of g onto
EdgeImage(G, g, h) ==
    {i \in DOMAIN G.es :
        \E j \in DOMAIN g.es :
            /\ G.es[i].label = g.es[j].label
            /\ \/ <<G.es[i].source, G.es[i].target>>
                    = <<h[g.es[j].source], h[g.es[j].target]>>
               \/ /\ ~directed
                  /\ <<G.es[i].source, G.es[i].target>>
                       = <<h[g.es[j].target], h[g.es[j].source]>>}

\* g is made of the edges cov of batch G: some map of g's vertices to G's
\* keeps the vertex labels and carries g's edges onto exactly the edges cov
MadeOf(G, g, cov) ==
    \E h \in [DOMAIN g.label -> DOMAIN G.label] :
        /\ \A v \in DOMAIN g.label : g.label[v] = G.label[h[v]]
        /\ \A j \in DOMAIN g.es :
              Arc(G, h[g.es[j].source], h[g.es[j].target], g.es[j].label)
        /\ EdgeImage(G, g, h) = cov

RECURSIVE SumOfEdges(_)
SumOfEdges(calls) ==
    IF calls = << >> THEN 0
    ELSE Len(Head(calls).graph.es) + SumOfEdges(Tail(calls))

C9_NeverBelowEarlier ==
    \A s \in seen : \A i \in DOMAIN P :
        LabelIsomorphic(s.graph, P[i].graph) =>
            P[i].count >= s.count /\ P[i].score >= s.score

\* C9 amended: over one update_dictionary or trim_dictionary call the count
\* and the score of a pattern graph that stays in the dictionary do not fall;
\* a pattern the dictionary no longer holds is inserted with count 1, score 0
C9_NoDecreaseWhileKept ==
    /\ op.name \in {"update_dictionary", "trim_dictionary"} =>
          \A i \in DOMAIN op.P0 : \A j \in DOMAIN P :
              LabelIsomorphic(op.P0[i].graph, P[j].graph) =>
                  P[j].count >= op.P0[i].count /\ P[j].score >= op.P0[i].score
    /\ (op.name = "update_dictionary" /\ MatchSet(op.P0, op.pattern) = {}) =>
          \A j \in DOMAIN P :
              LabelIsomorphic(P[j].graph, op.pattern) =>
                  P[j].count = 1 /\ P[j].score = 0

\* C9 witness: a pattern recorded with a count of 2 or more earlier, dropped
\* by a trim, has just been inserted again
C9_Witness ==
    /\ op.name = "update_dictionary"
    /\ MatchSet(op.P0, op.pattern) = {}
    /\ dict_trimmed >= 1
    /\ \E s \in seen :
          /\ LabelIsomorphic(s.graph, op.pattern)
          /\ s.count >= 2

\* C10: once compress_file has returned on a file in which an edge line
\* between declared vertices was read, the dictionary is not empty, whatever
\* the batch size and the dictionary bound
C10_NonEmptyAfterFile ==
    (op.name = "compress_file" /\ op.status = "returned" /\ op.declared_edge)
        => P # << >>

\* C10 witness: compress_file, entered with an empty dictionary, a batch size
\* above 1 and a finite bound, has returned after reading an edge line between
\* declared vertices that no full batch took in
C10_Witness ==
    /\ op.name = "compress_file"
    /\ op.status = "returned"
    /\ op.declared_edge
    /\ op.P0 = << >>
    /\ batch_size > 1
    /\ dict_size # INF
    /\ edge_count % batch_size # 0
    /\ Len(P) >= 1

\* C11 as claimed: every batch graph with an edge that the loop over the
\* lines hands to iterate_batch before the end of the file holds exactly
\* alpha edges
C11_BatchesOfAlphaEdges ==
    op.name = "compress_file" =>
        \A i \in DOMAIN op.batches :
            (op.batches[i].at = "loop" /\ ecount(op.batches[i].G) > 0)
                => ecount(op.batches[i].G) = batch_size

\* the number of edges in the batch graphs handed to iterate_batch
RECURSIVE SumBatchEdges(_)
SumBatchEdges(batches) ==
    IF batches = << >> THEN 0
    ELSE ecount(Head(batches).G) + SumBatchEdges(Tail(batches))

\* C12: every edge added to a batch graph is handed to iterate_batch exactly
\* once: while the file is read the edges added so far are those of the
\* batches processed plus those of the current batch graph, and once
\* compress_file has returned they are those of the batches processed
C12_EachEdgeProcessedOnce ==
    op.name = "compress_file" =>
        /\ op.status = "reading" =>
              SumBatchEdges(op.batches) + ecount(G_batch) = op.added
        /\ op.status = "returned" =>
              SumBatchEdges(op.batches) = op.added

\* C12 witness: compress_file has returned after a full batch and a
\* remainder, both with edges
C12_Witness ==
    /\ op.name = "compress_file"
    /\ op.status = "returned"
    /\ \E i, j \in DOMAIN op.batches :
          /\ op.batches[i].at = "loop" /\ ecount(op.batches[i].G) > 0
          /\ op.batches[j].at = "eof"

\* the file with every `u` and `d` line written as an `e` line
AsELines(lines) ==
    [i \in DOMAIN lines |->
        IF lines[i].kind \in {"u", "d"}
        THEN [lines[i] EXCEPT !.kind = "e"]
        ELSE lines[i]]

\* the batch graphs with edges among those handed to iterate_batch, in order
GraphsOf(batches) ==
    LET full == SelectSeq(batches, LAMBDA b : ecount(b.G) > 0)
    IN [i \in DOMAIN full |-> full[i].G]

\* C13 as claimed: a file processed to its end hands the same batch graphs to
\* iterate_batch and leaves the same dictionary as the file in which the
\* `u` and `d` lines are written as `e` lines
C13_KeywordsAlike ==
    (op.name = "compress_file" /\ op.status = "returned") =>
        LET alt == compress_file(op.P0, op.trimmed0, op.labelsF,
                                 AsELines(op.lines))
        IN /\ alt.err = "none"
           /\ GraphsOf(alt.batches) = GraphsOf(op.batches)
           /\ alt.P = P

\* C14 as claimed: a blank line or a `%` comment line raises no error and
\* leaves the batch graph, the id-to-label map and the dictionary as they
\* were before the line
C14_BlankAndCommentIgnored ==
    (op.name = "compress_file" /\ op.line.kind \in {"blank", "%"}) =>
        /\ op.err = "none"
        /\ G_batch = op.G0
        /\ vid_to_label = op.labels0
        /\ P = op.Pl

\* C15 as claimed: with add_implicit_vertices disabled, an edge line whose
\* two endpoints were declared by vertex lines earlier in the same batch (here:
\* in the first file, before any batch was processed) is accepted without
\* error, and an edge line naming an id never declared is an error that
\* leaves the batch graph and the dictionary as they were
C15_StrictEdgeLines ==
    (op.name = "compress_file" /\ ~add_implicit_vertices
        /\ op.line.kind \in {"e", "u", "d"}) =>
        LET known == DOMAIN op.labels0
        IN /\ (op.line.source \in known /\ op.line.target \in known
                 /\ compress_count = 1 /\ op.G0 = NamedGraph
                 /\ \A i \in DOMAIN op.batches : op.batches[i].at # "loop"
                        \/ i = Len(op.batches))
                 => op.err = "none"
           /\ (op.line.source \notin known \/ op.line.target \notin known)
                 => (op.err # "none" /\ G_batch = op.G0 /\ P = op.Pl)

C17_SaveLoadRoundTrip ==
    (op.name = "compress_file" /\ op.status \in {"returned", "raised"}) =>
        LET original == Compressor(compress_count - 1, op.trimmed0, op.P0,
                                   op.labelsF)
            restored == import_state(Compressor(0, 0, << >>, << >>),
                                     save_state(original))
            alt == compress_file(restored.P, restored.dict_trimmed,
                                 restored.vid_to_label, op.lines)
        IN /\ alt.err = op.err
           /\ alt.P = P

\* the pattern of one edge with label l between vertices labelled a and b
EdgePattern(a, b, l) ==
    [label |-> <<a, b>>, es |-> <<[source |-> 1, target |-> 2, label |-> l]>>]

\* the triangle of the scenarios: vertices labelled 1, edges labelled 9
Triangle ==
    [label |-> <<1, 1, 1>>,
     es |-> << [source |-> 1, target |-> 2, label |-> 9],
               [source |-> 2, target |-> 3, label |-> 9],
               [source |-> 1, target |-> 3, label |-> 9] >>]

\* compress_file has returned on exactly the lines of file, entered with an
\* empty dictionary
Processed(file) ==
    /\ op.name = "compress_file"
    /\ op.status = "returned"
    /\ op.lines = file
    /\ op.P0 = << >>

\* C18 as claimed: scenario 1 with alpha = 3, undirected, leaves one triangle
\* pattern with count 1 and score 2 in the dictionary
C18_Scenario1Triangle ==
    (Processed(Scenario1) /\ batch_size = 3 /\ ~directed) =>
        \E i \in DOMAIN P :
            /\ LabelIsomorphic(P[i].graph, Triangle)
            /\ P[i].count = 1
            /\ P[i].score = 2

\* C18 amended: scenario 1 with alpha = 3, undirected, leaves exactly one
\* entry, the single-edge pattern (1)-[9]-(1) with count 3 and score 0, and
\* no triangle
C18_Scenario1SingleEdge ==
    (Processed(Scenario1) /\ batch_size = 3 /\ ~directed) =>
        /\ Len(P) = 1
        /\ LabelIsomorphic(P[1].graph, EdgePattern(1, 1, 9))
        /\ P[1].count = 3
        /\ P[1].score = 0
        /\ ~LabelIsomorphic(P[1].graph, Triangle)

\* C18 witness: scenario 1 has been processed with alpha = 3, undirected, in
\* one batch of three edges
C18_Witness ==
    /\ Processed(Scenario1)
    /\ batch_size = 3
    /\ ~directed
    /\ Len(op.batches) = 1
    /\ ecount(op.batches[1].G) = 3

\* the path of 4 vertices labelled 1 and 3 edges labelled 9
Path4 ==
    [label |-> <<1, 1, 1, 1>>,
     es |-> << [source |-> 1, target |-> 2, label |-> 9],
               [source |-> 1, target |-> 3, label |-> 9],
               [source |-> 2, target |-> 4, label |-> 9] >>]

\* C19 as claimed: scenario 2 with alpha = 3, undirected, leaves one triangle
\* pattern with count 2 and score 2 and no pattern of 6 vertices
C19_Scenario2Triangle ==
    (Processed(Scenario2) /\ batch_size = 3 /\ ~directed) =>
        /\ \E i \in DOMAIN P :
              /\ LabelIsomorphic(P[i].graph, Triangle)
              /\ P[i].count = 2
              /\ P[i].score = 2
        /\ \A i \in DOMAIN P : vcount(P[i].graph) # 6

\* C19 amended: scenario 2 with alpha = 3, undirected, leaves two entries:
\* the single-edge pattern (1)-[9]-(1) with count 3 and score 0, and the path
\* of 4 vertices and 3 edges with count 6 and score 10; no triangle and no
\* pattern of 6 vertices
C19_Scenario2EdgeAndPath ==
    (Processed(Scenario2) /\ batch_size = 3 /\ ~directed) =>
        /\ Len(P) = 2
        /\ LabelIsomorphic(P[1].graph, EdgePattern(1, 1, 9))
        /\ P[1].count = 3 /\ P[1].score = 0
        /\ LabelIsomorphic(P[2].graph, Path4)
        /\ P[2].count = 6 /\ P[2].score = 10
        /\ \A i \in DOMAIN P :
              /\ ~LabelIsomorphic(P[i].graph, Triangle)
              /\ vcount(P[i].graph) # 6

\* C19 witness: scenario 2 has been processed with alpha = 3, undirected, in
\* two batches of three edges
C19_Witness ==
    /\ Processed(Scenario2)
    /\ batch_size = 3
    /\ ~directed
    /\ Len(op.batches) = 2
    /\ \A i \in 1..2 : ecount(op.batches[i].G) = 3

\* C20: scenario 3 with alpha = 1 and theta = +infinity: after n repetitions
\* of the edge line the dictionary holds exactly one entry, the single-edge
\* pattern (1)-[7]-(2), with count n and score 0
C20_Scenario3Repetition ==
    \A n \in 1..MaxReps :
        (Processed(Scenario3(n)) /\ batch_size = 1 /\ dict_size = INF) =>
            /\ Len(P) = 1
            /\ LabelIsomorphic(P[1].graph, EdgePattern(1, 2, 7))
            /\ P[1].count = n
            /\ P[1].score = 0

\* C20 witness: the scenario's 5 repetitions have been processed with
\* alpha = 1 and theta = +infinity, each edge line in a batch of its own
C20_Witness ==
    /\ Processed(Scenario3(5))
    /\ batch_size = 1
    /\ dict_size = INF
    /\ Len(op.batches) = 5

\* the lines of scenario 4 up to its k-th edge line have been read by a
\* compress_file call entered with an empty dictionary, each edge line a
\* batch of its own, with theta = 2
Inserted(k) ==
    /\ op.name = "compress_file"
    /\ op.status = "reading"
    /\ op.lines = SubSeq(Scenario4, 1, 2 + k)
    /\ op.P0 = << >>
    /\ batch_size = 1
    /\ dict_size = 2

\* C21 as claimed: in scenario 4 with theta = 2 the dictionary never holds
\* more than 4 entries, the trim fires at the 5th insertion and leaves 2
\* entries, the two inserted first
C21_Scenario4TrimAtFifth ==
    /\ \A k \in 0..6 : Inserted(k) => Len(P) <= 4
    /\ Inserted(4) => dict_trimmed = 0
    /\ Inserted(5) =>
          /\ dict_trimmed = 1
          /\ \A i \in 1..2 :
                LabelIsomorphic(P[i].graph, EdgePattern(1, 1, i))

\* C21 amended: in scenario 4 with theta = 2 the dictionary holds k entries
\* after the k-th insertion for k <= 5 and no trim has fired; the trim fires
\* at the 6th insertion, keeps the two entries inserted first and is followed
\* by the append of the 6th pattern, so 3 entries remain, all of score 0
C21_Scenario4TrimAtSixth ==
    /\ \A k \in 0..5 : Inserted(k) => (Len(P) = k /\ dict_trimmed = 0)
    /\ Inserted(6) =>
          /\ dict_trimmed = 1
          /\ Len(P) = 3
          /\ LabelIsomorphic(P[1].graph, EdgePattern(1, 1, 1))
          /\ LabelIsomorphic(P[2].graph, EdgePattern(1, 1, 2))
          /\ LabelIsomorphic(P[3].graph, EdgePattern(1, 1, 6))
    /\ (\E k \in 0..6 : Inserted(k)) =>
          \A i \in DOMAIN P : P[i].count = 1 /\ P[i].score = 0

\* C21 witness: the 6th single-edge pattern of scenario 4 has been inserted
\* with theta = 2 and a trim has fired
C21_Witness ==
    /\ Inserted(6)
    /\ dict_trimmed = 1

\* iterate_batch has just run on the triangle a-b-c with the dictionary
\* holding the path a-b-c with count 1 and nothing else
CycleClosure ==
    /\ op.name = "iterate_batch"
    /\ op.G = TriangleABC
    /\ Len(op.P0) = 1
    /\ op.P0[1].graph = PathABC
    /\ op.P0[1].count = 1

Rank(kind) == IF kind = "match" THEN 1 ELSE IF kind = "extension" THEN 2 ELSE 3

\* a call of iterate_batch is under way or has returned
InBatch == op.name = "iterate_batch"

\* C23: within one iterate_batch call the dictionary is not updated while the
\* entries are matched, the entries matched are exactly those present at
\* entry, every update for an extended pattern precedes every residue
\* update, and the call ends with the dictionary the updates computed from
\* the snapshot give
C23_SnapshotOrdering ==
    InBatch =>
       /\ pc = "matching" =>
             /\ P = op.P0
             /\ dict_trimmed = op.trimmed0
       /\ \A a \in DOMAIN op.events :
             op.events[a].kind = "match" =>
                /\ op.events[a].entry <= Len(op.P0)
                /\ op.events[a].entry = a
       /\ \A a, b \in DOMAIN op.events :
             a < b => Rank(op.events[a].kind) <= Rank(op.events[b].kind)
       /\ pc \in {"installing", "residue", "idle"} /\ ecount(op.G) > 0 =>
             /\ op.i = Len(op.P0) + 1
             /\ op.new_patterns =
                   MatchPatterns(op.G, op.P0,
                                 [new_patterns |-> << >>, taken |-> {}],
                                 1).new_patterns
       /\ pc = "idle" =>
             P = iterate_batch([P |-> op.P0, dict_trimmed |-> op.trimmed0],
                               op.G).P

\* C23 witness: a call of iterate_batch has returned after matching an entry,
\* updating an extended pattern and updating a residue edge
C23_Witness ==
    /\ InBatch
    /\ pc = "idle"
    /\ \A k \in {"match", "extension", "residue"} :
          \E a \in DOMAIN op.events : op.events[a].kind = k
    /\ Len(P) > Len(op.P0)

\* C24: no step of iterate_batch and no update_dictionary call changes the
\* graph of an entry that stays in P: without a trim every entry keeps its
\* position and graph and its count does not decrease, with a trim every
\* entry kept is an unchanged entry of before and only the last one is new
C24_PatternImmutability ==
    [][IF dict_trimmed' = dict_trimmed
       THEN /\ Len(P') >= Len(P)
            /\ \A i \in DOMAIN P :
                  /\ P'[i].graph = P[i].graph
                  /\ P'[i].count \in {P[i].count, P[i].count + 1}
       ELSE \A k \in 1..(Len(P') - 1) : \E i \in DOMAIN P : P'[k] = P[i]]_vars

\* C24 witness: iterate_batch has returned after installing an extension of
\* an entry, and every entry of the snapshot is in P with its graph
C24_Witness ==
    /\ InBatch
    /\ pc = "idle"
    /\ Len(op.P0) >= 1
    /\ Len(op.new_patterns) >= 1
    /\ Len(P) > Len(op.P0)
    /\ \A i \in DOMAIN op.P0 : P[i].graph = op.P0[i].graph

\* C25: after iterate_batch every batch edge that is the image of a pattern
\* edge under an embedding of an entry of the snapshot is taken, and no
\* single-edge pattern is updated for it in the residue
C25_ImageEdgesTaken ==
    (op.name = "iterate_batch" /\ ecount(op.G) > 0) =>
        \A i \in DOMAIN op.P0 :
            LET p    == op.P0[i].graph
                maps == maps_of(op.G, p)
            IN \A k \in DOMAIN maps :
                  \A e \in ImageEdges(op.G, p, maps[k]) :
                     /\ e \in op.taken
                     /\ \A c \in DOMAIN op.calls :
                           op.calls[c].cov = {e} =>
                              ecount(op.calls[c].graph) > 1

\* the edges of g at vertex v in either direction
IncidentAll(g, v) ==
    {i \in DOMAIN g.es : g.es[i].source = v \/ g.es[i].target = v}

\* C26: in directed mode, for every embedding of a snapshot entry and every
\* mapped vertex with more incident batch edges than incident pattern edges,
\* counted in both directions, every batch edge at that vertex, incoming or
\* outgoing, has been examined by the extension step and so is taken
C26_IncidenceBothDirections ==
    (op.name = "iterate_batch" /\ ecount(op.G) > 0 /\ directed) =>
        \A i \in DOMAIN op.P0 :
            LET p    == op.P0[i].graph
                maps == maps_of(op.G, p)
            IN \A k \in DOMAIN maps : \A p_v \in DOMAIN maps[k] :
                  Cardinality(IncidentAll(op.G, maps[k][p_v]))
                        > Cardinality(IncidentAll(p, p_v))
                     => IncidentAll(op.G, maps[k][p_v]) \subseteq op.taken

\* the orders a dictionary of n entries can be in
Orders(n) ==
    {f \in [1..n -> 1..n] : \A a, b \in 1..n : a # b => f[a] # f[b]}

\* Q1 and Q2 hold the same (graph, count) entries, graphs compared up to
\* label-preserving isomorphism
SameEntries(Q1, Q2) ==
    /\ Len(Q1) = Len(Q2)
    /\ \A i \in DOMAIN Q1 : \E j \in DOMAIN Q2 :
          Q1[i].count = Q2[j].count /\ LabelIsomorphic(Q1[i].graph, Q2[j].graph)
    /\ \A j \in DOMAIN Q2 : \E i \in DOMAIN Q1 :
          Q1[i].count = Q2[j].count /\ LabelIsomorphic(Q1[i].graph, Q2[j].graph)

\* iterate_batch on the last batch, entered with the snapshot in every other
\* order, ends with the same (graph, count) entries
OrderIrrelevant ==
    \A f \in Orders(Len(op.P0)) :
        SameEntries(iterate_batch([P |-> [k \in DOMAIN op.P0 |-> op.P0[f[k]]],
                                   dict_trimmed |-> op.trimmed0], op.G).P,
                    P)

\* C27 as claimed: for every bound theta, finite ones with trims included,
\* two dictionaries with the same (graph, count) entries in different orders
\* hold the same (graph, count) entries after the same batch
C27_OrderInsignificant ==
    op.name = "iterate_batch" => OrderIrrelevant

\* C27 amended: with theta = +infinity, so that no trim ever fires, two
\* dictionaries with the same (graph, count) entries in different orders
\* hold the same (graph, count) entries after the same batch, graphs compared
\* up to label-preserving isomorphism
C27_OrderInsignificantWithoutTrim ==
    (op.name = "iterate_batch" /\ dict_size = INF) => OrderIrrelevant

\* C27 witness: with theta = +infinity a batch has been iterated on a
\* dictionary of at least two entries and has added an entry
C27_Witness ==
    /\ op.name = "iterate_batch"
    /\ dict_size = INF
    /\ Len(op.P0) >= 2
    /\ Len(P) > Len(op.P0)

Homomorphisms(g, G) ==
    {h \in [DOMAIN g.label -> DOMAIN G.label] :
        /\ \A v \in DOMAIN g.label : g.label[v] = G.label[h[v]]
        /\ \A j \in DOMAIN g.es :
              Arc(G, h[g.es[j].source], h[g.es[j].target], g.es[j].label)}

\* g is label-preserving subgraph-isomorphic to G
SubgraphOf(g, G) ==
    \E h \in Homomorphisms(g, G) :
        \A u, v \in DOMAIN g.label : u # v => h[u] # h[v]

\* iterate_batch has just run on the triangle with equal labels, the
\* dictionary holding the single-edge pattern of its edges and nothing else
EdgeInTriangle ==
    /\ op.name = "iterate_batch"
    /\ op.G = TriangleBatch
    /\ Len(op.P0) = 1
    /\ LabelIsomorphic(op.P0[1].graph, EdgePattern(1, 1, 9))
    /\ ~directed

\* C29 as claimed: every pattern iterate_batch passes to update_dictionary
\* is label-preserving subgraph-isomorphic to the batch graph
C29_ExtensionIsSubgraph ==
    op.name = "iterate_batch" =>
        \A c \in DOMAIN op.calls : SubgraphOf(op.calls[c].graph, op.G)

\* C29 amended: every pattern iterate_batch passes to update_dictionary maps
\* into the batch graph by a label-preserving homomorphism that need not be
\* injective, a new vertex being added for every visit of an edge leading
\* out of the embedding; the single-edge pattern in the triangle is extended,
\* for each of its 6 embeddings, to a path of 4 vertices
C29_ExtensionIsHomomorphic ==
    /\ op.name = "iterate_batch" =>
          \A c \in DOMAIN op.calls :
              Homomorphisms(op.calls[c].graph, op.G) # {}
    /\ EdgeInTriangle =>
          /\ Len(op.calls) = 6
          /\ \A c \in DOMAIN op.calls :
                LabelIsomorphic(op.calls[c].graph, Path4)

\* C29 witness: the single-edge pattern has been extended in the triangle
C29_Witness ==
    /\ EdgeInTriangle
    /\ \E i \in DOMAIN P : vcount(P[i].graph) = 4

\* no two edges of g join the same vertices (in the same direction when
\* directed)
NoParallelEdges(g) ==
    \A a, b \in DOMAIN g.es :
        a # b =>
           /\ <<g.es[a].source, g.es[a].target>> # <<g.es[b].source, g.es[b].target>>
           /\ ~directed =>
                 <<g.es[a].source, g.es[a].target>> # <<g.es[b].target, g.es[b].source>>

\* C30: every pattern graph in P has at least one edge, is connected and has
\* no parallel edges, and every score is at least 0
C30_PatternsWellFormed ==
    \A i \in DOMAIN P :
        /\ ecount(P[i].graph) >= 1
        /\ Connected(P[i].graph)
        /\ NoParallelEdges(P[i].graph)
        /\ P[i].score >= 0

\* C30 witness: a batch has been iterated and P holds a pattern in which an
\* extension closed a cycle of three edges
C30_Witness ==
    /\ op.name = "iterate_batch"
    /\ \E i \in DOMAIN P :
          /\ ecount(P[i].graph) = 3
          /\ vcount(P[i].graph) = 3
          /\ \E c \in DOMAIN op.calls : op.calls[c].graph = P[i].graph

====
